---------------------------- MODULE Spec2Model ----------------------------
(***************************************************************************)
(* Terminus Tenebris (src/main.py): the us_tz timezone class, sun_times    *)
(* and the index request handler.                                          *)
(*                                                                         *)
(* Representation.                                                         *)
(*   timedelta        an integer number of seconds                         *)
(*   naive datetime   an integer: seconds since 2000-01-01T00:00:00 on the  *)
(*                    wall clock                                           *)
(*   aware datetime   [wall |-> naive datetime, tzinfo |-> tzinfo object]   *)
(*   float            fixed point: angles in millidegrees, sines and       *)
(*                    cosines in units of 1/Unit, day counts in seconds    *)
(*   Python values of several types (str / None / bool) are tagged records *)
(*   an operator that can raise returns [raised |-> "" , value |-> v] or   *)
(*   [raised |-> "<exception class>"]                                      *)
(***************************************************************************)
EXTENDS Integers, Sequences, FiniteSets, TLC

VARIABLES
    LEAP_SECONDS,   \* main.py:25
    TIME_EPOCH,     \* main.py:26
    DST_OFFSET,     \* main.py:36
    ZERO_OFFSET,    \* main.py:37
    all_tz,         \* main.py:38
    central_time,   \* main.py:111
    tzs,            \* one us_tz object being built and queried
    calls           \* the index / sun_times calls in progress

globals == <<LEAP_SECONDS, TIME_EPOCH, DST_OFFSET, ZERO_OFFSET, all_tz, central_time>>
vars == <<LEAP_SECONDS, TIME_EPOCH, DST_OFFSET, ZERO_OFFSET, all_tz, central_time, tzs, calls>>

----------------------------------------------------------------------------
(* Python values *)

None == [type |-> "NoneType"]
Str(s) == [type |-> "str", v |-> s]
Bool(b) == [type |-> "bool", v |-> b]

Ok(v) == [raised |-> "", value |-> v]
Raise(e) == [raised |-> e]

SecondsPerHour == 3600
SecondsPerDay == 86400

timedelta_hours(h) == h * SecondsPerHour

----------------------------------------------------------------------------
(* The proleptic Gregorian calendar of datetime.  Day 0 is 2000-01-01.      *)

DaysFromCivil(y, m, d) ==
    LET yy == IF m <= 2 THEN y - 1 ELSE y
        era == yy \div 400
        yoe == yy - era * 400
        mp == IF m > 2 THEN m - 3 ELSE m + 9
        doy == (153 * mp + 2) \div 5 + d - 1
        doe == yoe * 365 + yoe \div 4 - yoe \div 100 + doy
    IN  era * 146097 + doe - 719468 - 10957

\* the inverse of DaysFromCivil, one step of the computation per operator
CivilOfMonth(era, yoe, doy, mp) ==
    [year |-> yoe + era * 400 + (IF mp < 10 THEN 0 ELSE 1),
     month |-> IF mp < 10 THEN mp + 3 ELSE mp - 9,
     day |-> doy - (153 * mp + 2) \div 5 + 1]

CivilOfDayOfYear(era, yoe, doy) == CivilOfMonth(era, yoe, doy, (5 * doy + 2) \div 153)

CivilOfYearOfEra(era, doe, yoe) ==
    CivilOfDayOfYear(era, yoe, doe - (365 * yoe + yoe \div 4 - yoe \div 100))

CivilOfEra(z, era) ==
    CivilOfYearOfEra(era, z - era * 146097,
        ((z - era * 146097) - (z - era * 146097) \div 1460
            + (z - era * 146097) \div 36524 - (z - era * 146097) \div 146096) \div 365)

CivilFromDays(z0) == CivilOfEra(z0 + 10957 + 719468, (z0 + 10957 + 719468) \div 146097)

IsLeap(y) == (y % 4 = 0 /\ y % 100 # 0) \/ y % 400 = 0

DaysInMonth(y, m) ==
    IF m = 2 THEN (IF IsLeap(y) THEN 29 ELSE 28)
    ELSE IF m \in {4, 6, 9, 11} THEN 30 ELSE 31

\* datetime.datetime(y, m, d, hour=h): the naive wall clock value
datetime(y, m, d, h) == DaysFromCivil(y, m, d) * SecondsPerDay + h * SecondsPerHour

ordinal(wall) == wall \div SecondsPerDay
month(wall) == CivilFromDays(ordinal(wall)).month
day(wall) == CivilFromDays(ordinal(wall)).day
year(wall) == CivilFromDays(ordinal(wall)).year
\* Monday is 1 and Sunday is 7; 2000-01-01 was a Saturday
isoweekday(wall) == ((ordinal(wall) + 5) % 7) + 1

----------------------------------------------------------------------------
(* float(name) and datetime.timedelta(hours=<float>), on the strings used  *)
(* as timezone names.  A finite float is kept in tenths of an hour.        *)

Finite(tenths) == [class |-> "finite", tenths |-> tenths]
NaN == [class |-> "nan"]
Infinity == [class |-> "inf"]

FloatLiterals ==
    ("-5" :> Finite(-50)) @@ ("5.5" :> Finite(55)) @@ ("30" :> Finite(300))
    @@ ("nan" :> NaN) @@ ("inf" :> Infinity)

float(x) ==
    IF x.type # "str" THEN Raise("TypeError")
    ELSE IF x.v \in DOMAIN FloatLiterals THEN Ok(FloatLiterals[x.v])
    ELSE Raise("ValueError")

timedelta_float_hours(f) ==
    CASE f.class = "nan" -> Raise("ValueError")
      [] f.class = "inf" -> Raise("OverflowError")
      [] OTHER -> Ok((f.tenths * SecondsPerHour) \div 10)

----------------------------------------------------------------------------
(* class us_tz *)

ALL_TZ ==
    [eastern |-> [offset |-> timedelta_hours(-5), std_name |-> "EST", dst_name |-> "EDT"],
     central |-> [offset |-> timedelta_hours(-6), std_name |-> "CST", dst_name |-> "CDT"],
     mountain |-> [offset |-> timedelta_hours(-7), std_name |-> "MST", dst_name |-> "MDT"],
     pacific |-> [offset |-> timedelta_hours(-8), std_name |-> "PST", dst_name |-> "PDT"],
     alaska |-> [offset |-> timedelta_hours(-9), std_name |-> "AKST", dst_name |-> "AKDT"],
     hawaii |-> [offset |-> timedelta_hours(-10), std_name |-> "HST", dst_name |-> "HDT"]]

us_tz_object(ov, off, std, dstn) ==
    [class |-> "us_tz", _dst_override |-> ov, _utc_offset |-> off,
     _std_name |-> std, _dst_name |-> dstn]

\* us_tz.__init__ with the caller's override kept by the fallback zones too
us_tz_keeps_override(name, dst_override) ==
    IF name.type = "str" /\ name.v \in DOMAIN all_tz
    THEN LET data == all_tz[name.v]
         IN  Ok(us_tz_object(dst_override, data.offset, data.std_name, data.dst_name))
    ELSE LET raw_offset == float(name)
             td == IF raw_offset.raised = "" THEN timedelta_float_hours(raw_offset.value)
                   ELSE raw_offset
         IN  IF td.raised = ""
             THEN Ok(us_tz_object(dst_override, td.value, name.v, name.v))
             ELSE IF td.raised \in {"ValueError", "TypeError"}
             THEN Ok(us_tz_object(dst_override, ZERO_OFFSET, "UTC", "UTC"))
             ELSE td

\* us_tz.__init__: the object, or the exception the constructor lets out
us_tz(name, dst_override) ==
    IF name.type = "str" /\ name.v \in DOMAIN all_tz
    THEN LET data == all_tz[name.v]
         IN  Ok(us_tz_object(dst_override, data.offset, data.std_name, data.dst_name))
    ELSE \* except KeyError
         LET raw_offset == float(name)
             td == IF raw_offset.raised = "" THEN timedelta_float_hours(raw_offset.value)
                   ELSE raw_offset
         IN  IF td.raised = ""
             THEN Ok(us_tz_object(Bool(FALSE), td.value, name.v, name.v))
             ELSE IF td.raised \in {"ValueError", "TypeError"}
             THEN Ok(us_tz_object(Bool(FALSE), ZERO_OFFSET, "UTC", "UTC"))
             ELSE td

\* main.py:101-110 with March's test off by one (>= 7 for > 7)
us_dst_rule_from_first_sunday(date, wd) ==
    IF date.month \in {4, 5, 6, 7, 8, 9, 10} THEN TRUE
    ELSE IF date.month \in {1, 2, 12} THEN FALSE
    ELSE IF date.month = 3 THEN date.day - wd >= 7
    ELSE date.day - wd > 0

\* main.py:101-110: the date-based rule; wd is the week day with Sunday zero
\* and date.day - wd is last_sunday, the month day of the previous Sunday
us_dst_rule(date, wd) ==
    IF date.month \in {4, 5, 6, 7, 8, 9, 10} THEN TRUE
    ELSE IF date.month \in {1, 2, 12} THEN FALSE
    ELSE IF date.month = 3 THEN date.day - wd > 7
    ELSE date.day - wd > 0

\* _is_dst without the override test
_is_dst_by_date_only(self, dt) ==
    us_dst_rule(CivilFromDays(ordinal(dt)), isoweekday(dt) % 7)

_is_dst(self, dt) ==
    IF self._dst_override # None THEN self._dst_override.v
    ELSE us_dst_rule(CivilFromDays(ordinal(dt)), isoweekday(dt) % 7)

dst(self, dt) == IF _is_dst(self, dt) THEN DST_OFFSET ELSE ZERO_OFFSET
utcoffset(self, dt) == self._utc_offset + dst(self, dt)
tzname(self, dt) == IF _is_dst(self, dt) THEN self._dst_name ELSE self._std_name

----------------------------------------------------------------------------
(* One us_tz object: constructed from a name and an override, then asked   *)
(* for _is_dst / dst / utcoffset / tzname on a date.                       *)

MaxYear == 2025
Years == 2018..MaxYear
\* every calendar day of Years, as the naive datetime of its midnight
Dates ==
    {datetime(y, m, d, 0) : <<y, m, d>> \in
        {ymd \in Years \X (1..12) \X (1..31) : ymd[3] <= DaysInMonth(ymd[1], ymd[2])}}

ZoneNames == {"eastern", "central", "mountain", "pacific", "alaska", "hawaii"}
TzNames ==
    {Str(s) : s \in ZoneNames \cup {"-5", "5.5", "30", "nan", "inf", "xyz"}} \cup {None}
Overrides == {None, Bool(TRUE), Bool(FALSE)}

IdleTz == [pc |-> "start", name |-> None, dst_override |-> None, dt |-> 0,
           self |-> None, method |-> "", value |-> None]

Construct ==
    /\ tzs.pc = "start"
    /\ LET r == us_tz(tzs.name, tzs.dst_override)
       IN  tzs' = IF r.raised = ""
                  THEN [tzs EXCEPT !.pc = "built", !.self = r.value]
                  ELSE [tzs EXCEPT !.pc = "raised", !.value = r.raised]
    /\ UNCHANGED <<globals, calls>>

Ask_is_dst ==
    /\ tzs.pc \in {"built", "asked"}
    /\ tzs' = [tzs EXCEPT !.pc = "asked", !.method = "_is_dst",
                          !.value = _is_dst(tzs.self, tzs.dt)]
    /\ UNCHANGED <<globals, calls>>

Ask_dst ==
    /\ tzs.pc \in {"built", "asked"}
    /\ tzs' = [tzs EXCEPT !.pc = "asked", !.method = "dst",
                          !.value = dst(tzs.self, tzs.dt)]
    /\ UNCHANGED <<globals, calls>>

Ask_utcoffset ==
    /\ tzs.pc \in {"built", "asked"}
    /\ tzs' = [tzs EXCEPT !.pc = "asked", !.method = "utcoffset",
                          !.value = utcoffset(tzs.self, tzs.dt)]
    /\ UNCHANGED <<globals, calls>>

Ask_tzname ==
    /\ tzs.pc \in {"built", "asked"}
    /\ tzs' = [tzs EXCEPT !.pc = "asked", !.method = "tzname",
                          !.value = tzname(tzs.self, tzs.dt)]
    /\ UNCHANGED <<globals, calls>>

InitGlobals ==
    /\ LEAP_SECONDS = 5
    /\ TIME_EPOCH = [wall |-> datetime(2000, 1, 1, 12), tzinfo |-> [class |-> "timezone.utc"]]
    /\ DST_OFFSET = timedelta_hours(1)
    /\ ZERO_OFFSET = 0
    /\ all_tz = ALL_TZ
    /\ central_time = us_tz_object(None, timedelta_hours(-6), "CST", "CDT")

NoCalls == [p \in {} |-> None]

InitTz ==
    /\ InitGlobals
    /\ calls = NoCalls
    /\ \E name \in TzNames, ov \in Overrides, dt \in Dates :
          tzs = [IdleTz EXCEPT !.name = name, !.dst_override = ov, !.dt = dt]

NextTz == Construct \/ Ask_is_dst \/ Ask_dst \/ Ask_utcoffset \/ Ask_tzname

SpecTz == InitTz /\ [][NextTz]_vars

----------------------------------------------------------------------------
(* Properties of us_tz, checked under SpecTz.                              *)

IsZone(name) == name.type = "str" /\ name.v \in ZoneNames

\* the day of month of the k-th Sunday of month m of year y
NthSunday(y, m, k) ==
    CHOOSE d \in 1..DaysInMonth(y, m) :
        isoweekday(datetime(y, m, d, 0)) = 7 /\ (d - 1) \div 7 = k - 1

Asked(method) == tzs.pc = "asked" /\ tzs.method = method

\* C1: for a named US zone built without an override, on a date in March
\* _is_dst is true exactly on and after the second Sunday of that March, and
\* utcoffset is the zone's standard offset plus one hour exactly then
\* (2021-03-14 is the second Sunday of March 2021).
C1_MarchSecondSunday ==
    /\ NthSunday(2021, 3, 2) = 14
    /\ (tzs.pc = "asked" /\ IsZone(tzs.name) /\ tzs.dst_override = None
            /\ month(tzs.dt) = 3) =>
         LET on == day(tzs.dt) >= NthSunday(year(tzs.dt), 3, 2)
         IN  /\ tzs.method = "_is_dst" => tzs.value = on
             /\ tzs.method = "utcoffset" =>
                   tzs.value = ALL_TZ[tzs.name.v].offset + (IF on THEN 3600 ELSE 0)

C1_Witness ==
    /\ Asked("_is_dst") /\ tzs.name = Str("central") /\ tzs.dst_override = None
    /\ tzs.dt = datetime(2021, 3, 14, 0) /\ tzs.value = TRUE

\* C2: for a named US zone built without an override, _is_dst is true on
\* every date of April to October, false on every date of December to
\* February, and in November true exactly before the first Sunday.
C2_DstSeason ==
    (Asked("_is_dst") /\ IsZone(tzs.name) /\ tzs.dst_override = None) =>
        LET m == month(tzs.dt)
        IN  /\ m \in 4..10 => tzs.value = TRUE
            /\ m \in {12, 1, 2} => tzs.value = FALSE
            /\ m = 11 => tzs.value = (day(tzs.dt) < NthSunday(year(tzs.dt), 11, 1))

\* the offset a timezone name stands for: the zone table's, the number of
\* hours the name spells, or zero
BaseOffset(name) ==
    IF IsZone(name) THEN ALL_TZ[name.v].offset
    ELSE IF name = Str("-5") THEN -18000
    ELSE IF name = Str("5.5") THEN 19800
    ELSE IF name = Str("30") THEN 108000
    ELSE 0

\* C3 as stated: with an override supplied, for every name us_tz accepts and
\* every date, _is_dst is the supplied flag and utcoffset is the base offset
\* plus one hour exactly when the flag is true.
C3_OverrideAlwaysWins ==
    (tzs.pc = "asked" /\ tzs.dst_override # None) =>
        /\ tzs.method = "_is_dst" => tzs.value = tzs.dst_override.v
        /\ tzs.method = "utcoffset" =>
              tzs.value = BaseOffset(tzs.name) + (IF tzs.dst_override.v THEN 3600 ELSE 0)

\* C3 amended: with an override supplied the date is never consulted: for a
\* named US zone _is_dst is the supplied flag and utcoffset is the zone's
\* offset plus one hour exactly when the flag is true; for a numeric or an
\* unrecognised or absent name the flag is discarded, _is_dst is false and
\* utcoffset is the base offset.
C3_OverrideBypassesDate ==
    (tzs.pc = "asked" /\ tzs.dst_override # None) =>
        LET flag == IF IsZone(tzs.name) THEN tzs.dst_override.v ELSE FALSE
        IN  /\ tzs.method = "_is_dst" => tzs.value = flag
            /\ tzs.method = "utcoffset" =>
                  tzs.value = BaseOffset(tzs.name) + (IF flag THEN 3600 ELSE 0)

C3_Witness ==
    /\ Asked("_is_dst") /\ tzs.name = Str("-5") /\ tzs.dst_override = Bool(TRUE)
    /\ month(tzs.dt) = 7 /\ tzs.value = FALSE

ConvertsToFloat(name) == name \in {Str("-5"), Str("5.5"), Str("30"), Str("nan"), Str("inf")}

\* what C10 says of the fallback zones once built: the same offset, no DST
\* and the same name on every date
FallbackIsFixed(offset, zname) ==
    /\ tzs.self._utc_offset = offset
    /\ tzs.method = "utcoffset" => tzs.value = offset
    /\ tzs.method = "dst" => tzs.value = 0
    /\ tzs.method = "_is_dst" => tzs.value = FALSE
    /\ tzs.method = "tzname" => tzs.value = zname

\* C10 as stated: a key of all_tz gives the table offset with date-based DST;
\* any other name that converts to a float gives a fixed offset of that many
\* hours under that name; anything else gives UTC; the latter two never
\* observe DST.
C10_ThreeWayResolution ==
    /\ tzs.pc # "raised"
    /\ tzs.pc \in {"built", "asked"} =>
         IF IsZone(tzs.name)
         THEN /\ tzs.self._utc_offset = ALL_TZ[tzs.name.v].offset
              /\ tzs.self._dst_override = tzs.dst_override
         ELSE IF ConvertsToFloat(tzs.name)
         THEN FallbackIsFixed(BaseOffset(tzs.name), tzs.name.v)
         ELSE FallbackIsFixed(0, "UTC")

\* C10 amended: a key of all_tz gives the table offset with date-based DST;
\* any other name that float() turns into a finite number of hours in
\* timedelta's range gives a fixed offset of that many hours under that
\* name; a name float() turns into infinity makes the constructor raise
\* OverflowError; anything else (a name float() rejects or turns into NaN,
\* or None) gives UTC; the zones so built never observe DST.
C10_Resolution ==
    /\ tzs.pc = "raised" => (tzs.name = Str("inf") /\ tzs.value = "OverflowError")
    /\ tzs.pc \in {"built", "asked"} =>
         IF IsZone(tzs.name)
         THEN /\ tzs.self._utc_offset = ALL_TZ[tzs.name.v].offset
              /\ tzs.self._dst_override = tzs.dst_override
         ELSE IF tzs.name \in {Str("-5"), Str("5.5"), Str("30")}
         THEN FallbackIsFixed(BaseOffset(tzs.name), tzs.name.v)
         ELSE tzs.name # Str("inf") /\ FallbackIsFixed(0, "UTC")

C10_Witness ==
    /\ Asked("utcoffset") /\ tzs.name = Str("5.5") /\ tzs.dst_override = None
    /\ month(tzs.dt) = 7 /\ tzs.value = 19800

----------------------------------------------------------------------------
(* Degree trigonometry (main.py:29-34) in fixed point.  An angle is an     *)
(* integer number of millidegrees; a sine or cosine is an integer number   *)
(* of 1/Unit.  sin is tabulated at the whole degrees of the first quadrant *)
(* and interpolated linearly between them.                                 *)

Unit == 10000

\* round(Unit * sin(d degrees)) for d = 0..90
SinTable ==
    <<    0,   175,   349,   523,   698,   872,  1045,  1219,  1392,  1564,
       1736,  1908,  2079,  2250,  2419,  2588,  2756,  2924,  3090,  3256,
       3420,  3584,  3746,  3907,  4067,  4226,  4384,  4540,  4695,  4848,
       5000,  5150,  5299,  5446,  5592,  5736,  5878,  6018,  6157,  6293,
       6428,  6561,  6691,  6820,  6947,  7071,  7193,  7314,  7431,  7547,
       7660,  7771,  7880,  7986,  8090,  8192,  8290,  8387,  8480,  8572,
       8660,  8746,  8829,  8910,  8988,  9063,  9135,  9205,  9272,  9336,
       9397,  9455,  9511,  9563,  9613,  9659,  9703,  9744,  9781,  9816,
       9848,  9877,  9903,  9925,  9945,  9962,  9976,  9986,  9994,  9998,
      10000>>

SinWholeDeg(d) ==
    IF d <= 180
    THEN SinTable[(IF d <= 90 THEN d ELSE 180 - d) + 1]
    ELSE -SinTable[(IF d <= 270 THEN d - 180 ELSE 360 - d) + 1]

\* between whole degree d and the next, f millidegrees on
sin_between(d, f) ==
    SinWholeDeg(d) + ((SinWholeDeg(d + 1) - SinWholeDeg(d)) * f) \div 1000

sind(x) == sin_between((x % 360000) \div 1000, (x % 360000) % 1000)

cosd(x) == sind(x + 90000)

\* between the cosines hi of whole degree d and lo of the next
acos_between(x, d, hi, lo) == d * 1000 + ((hi - x) * 1000) \div (hi - lo)

acos_degree(x, d) == acos_between(x, d, SinWholeDeg(d + 90), SinWholeDeg(d + 91))

\* acos with its argument clamped to [-1, 1] instead of an error
acosd_clamped(x) ==
    IF x < -Unit THEN Ok(180000)
    ELSE IF x > Unit THEN Ok(0)
    ELSE Ok(acos_degree(x, CHOOSE k \in 0..179 :
                /\ x >= SinWholeDeg(k + 91)
                /\ \A j \in 0..(k - 1) : x < SinWholeDeg(j + 91)))

\* math.acos raises ValueError ("math domain error") outside [-1, 1]
acosd(x) ==
    IF x < -Unit \/ x > Unit THEN Raise("ValueError")
    ELSE Ok(acos_degree(x, CHOOSE k \in 0..179 :
                /\ x >= SinWholeDeg(k + 91)
                /\ \A j \in 0..(k - 1) : x < SinWholeDeg(j + 91)))

asin_of_acos(a) == IF a.raised = "" THEN Ok(90000 - a.value) ELSE a

asind(x) == asin_of_acos(acosd(x))

----------------------------------------------------------------------------
(* datetime arithmetic with a tzinfo (the library behaviour main.py relies *)
(* on at lines 120, 144 and 166).                                          *)

\* datetime checks every offset a tzinfo hands it
checked_offset(off) ==
    IF -SecondsPerDay < off /\ off < SecondsPerDay THEN Ok(off) ELSE Raise("ValueError")

checked_utcoffset(tz, wall) == checked_offset(utcoffset(tz, wall))

\* tzinfo.fromutc, the default implementation us_tz inherits: the wall clock
\* of tz at the UTC instant u, from dtoff = utcoffset() and dtdst = dst()
fromutc_shift(tz, u, dtoff, dtdst) ==
    IF dtoff.raised # "" THEN dtoff
    ELSE IF dtoff.value - dtdst # 0
    THEN Ok([wall |-> (u + (dtoff.value - dtdst)) + dst(tz, u + (dtoff.value - dtdst)),
             tzinfo |-> tz])
    ELSE Ok([wall |-> u + dtdst, tzinfo |-> tz])

fromutc(tz, u) == fromutc_shift(tz, u, checked_utcoffset(tz, u), dst(tz, u))

\* aware - aware, in seconds: both sides are taken to UTC
aware_minus_offset(dt, off, other) ==
    IF off.raised # "" THEN off ELSE Ok((dt.wall - off.value) - other.wall)

aware_minus(dt, other) ==
    aware_minus_offset(dt, checked_utcoffset(dt.tzinfo, dt.wall), other)

\* datetime.strptime(at, '%Y-%m-%d') on the strings used as dates: the
\* fields of a string of that shape, which must then name a calendar day
DateLiterals ==
    ("2021-03-14" :> <<2021, 3, 14>>) @@ ("2021-11-07" :> <<2021, 11, 7>>)
    @@ ("2021-02-30" :> <<2021, 2, 30>>) @@ ("2021-13-01" :> <<2021, 13, 1>>)

strptime_fields(f) ==
    IF f[2] \in 1..12 /\ f[3] \in 1..DaysInMonth(f[1], f[2])
    THEN Ok(datetime(f[1], f[2], f[3], 0))
    ELSE Raise("ValueError")

strptime(at) ==
    IF at.v \notin DOMAIN DateLiterals THEN Raise("ValueError")
    ELSE strptime_fields(DateLiterals[at.v])

\* strftime(r'%H:%M:%S')
strftime(dt) ==
    LET t == dt.wall % SecondsPerDay
    IN  <<t \div SecondsPerHour, (t % SecondsPerHour) \div 60, t % 60>>

----------------------------------------------------------------------------
(* sun_times (main.py:113-157).  Day counts (n, eq_of_time_day, n_transit)  *)
(* are kept in seconds, angles in millidegrees, latitude and longitude are *)
(* whole degrees.                                                          *)

\* int(n): the whole days of n, rounded toward zero
int(n) == IF n >= 0 THEN n \div SecondsPerDay ELSE -((-n) \div SecondsPerDay)

\* M = (357.5291 + 985.600_280e-3*n) % 360
M(n) ==
    (357529 + (n \div SecondsPerDay) * 985 + ((n \div SecondsPerDay) * 60028) \div 100000
        + ((n % SecondsPerDay) * 9856) \div 864000) % 360000

\* C = 1.9148*sind(M) + 20e-3*sind(2*M) + 300e-6*sind(3*M)
C(m) == (19148 * sind(m) + 200 * sind(2 * m) + 3 * sind(3 * m)) \div 100000

\* lam = sum((M, C, 180.0, 102.9372)) % 360
lam(m) == (m + C(m) + 180000 + 102937) % 360000

\* eq_of_time_day = - 5.3e-3*sind(M) + 6.9e-3*sind(2*lam)
eq_of_time_day(m) ==
    (-45792 * sind(m) + 59616 * sind(2 * lam(m))) \div 1000000

\* delta = asind(sind(lam)*sind(23.44))
delta(m) == asind((sind(lam(m)) * sind(23440)) \div Unit).value

sunset_deg == -830
\* the twilight threshold with its sign lost
civil_twilight_deg_above == 6 * 1000
civil_twilight_deg == -6000

\* the quotient num/den of two fixed-point products, rounded toward zero;
\* the float quotient of a denominator this near zero is beyond any bound
quotient(an, ad, negative) ==
    IF ad = 0 THEN 2 * Unit
    ELSE IF negative THEN -((an * 100) \div ad)
    ELSE (an * 100) \div ad

divide(num, den) ==
    quotient((IF num < 0 THEN -num ELSE num) \div 10,
             (IF den < 0 THEN -den ELSE den) \div 1000,
             (num < 0) # (den < 0))

\* the argument of acosd in omega
omega_arg(theta, latitude_deg, dl) ==
    divide(sind(theta) * Unit - sind(latitude_deg * 1000) * sind(dl),
           cosd(latitude_deg * 1000) * cosd(dl))

hour_angle(a) == IF a.raised = "" THEN Ok((a.value * 6) \div 25) ELSE a

\* omega(theta), in seconds of time: acosd(...) / 15.0 hours
omega(theta, latitude_deg, dl) == hour_angle(acosd(omega_arg(theta, latitude_deg, dl)))

\* n_transit = int(n) - longitude_deg/360.0 - eq_of_time_day
n_transit(n, longitude_deg) ==
    int(n) * SecondsPerDay - longitude_deg * 240 - eq_of_time_day(M(n))

\* dt_transit = (TIME_EPOCH-LEAP_SECONDS + timedelta(days=n_transit))
\*                  .astimezone(dt.tzinfo)
dt_transit(nt, tzinfo) == fromutc(tzinfo, TIME_EPOCH.wall - LEAP_SECONDS + nt).value

----------------------------------------------------------------------------
(* The calls.  calls[p] is the frame of call p: index's arguments and      *)
(* locals (tz, dst, at, dt, times) and sun_times' arguments and locals     *)
(* (latitude_deg, longitude_deg, dt, n, delta, n_transit, out).  pc is the *)
(* statement the call is at; ret is what the call handed to its caller.    *)

NumCalls == 2
Procs == 1..NumCalls

PyInt(i) == [type |-> "int", v |-> i]

IdleCall ==
    [pc |-> "idle", fn |-> "", lat |-> 0, lon |-> 0, tz |-> None, dst |-> None,
     at |-> None, dt |-> None, n |-> 0, delta |-> 0, n_transit |-> 0,
     out |-> <<>>, times |-> None, ret |-> None]

\* a request to one of the four routes of index (main.py:159-162)
Routes(names, dsts, ats) ==
    {[tz |-> None, dst |-> None, at |-> None]}
    \cup {[tz |-> t, dst |-> None, at |-> None] : t \in names}
    \cup {[tz |-> t, dst |-> None, at |-> a] : t \in names, a \in ats}
    \cup {[tz |-> t, dst |-> d, at |-> None] : t \in names, d \in dsts}

\* index(lat, lon, tz, dst, at) is called
CallIndex(p, lats, lons, routes) ==
    /\ calls[p].pc = "idle"
    /\ \E lat \in lats, lon \in lons, r \in routes :
          calls' = [calls EXCEPT ![p] =
                      [IdleCall EXCEPT !.pc = "index", !.fn = "index", !.lat = lat,
                                       !.lon = lon, !.tz = r.tz, !.dst = r.dst, !.at = r.at]]
    /\ UNCHANGED <<globals, tzs>>

\* sun_times(latitude_deg, longitude_deg, dt) is called by a caller of its
\* own, with dt = datetime(..., tzinfo=us_tz(name)), name one whose offset
\* datetime accepts
CallSunTimes(p, lats, lons, walls, names) ==
    /\ calls[p].pc = "idle"
    /\ \E lat \in lats, lon \in lons, w \in walls, t \in names :
          calls' = [calls EXCEPT ![p] =
                      [IdleCall EXCEPT !.pc = "sun_times", !.fn = "sun_times",
                                       !.lat = lat, !.lon = lon, !.tz = t,
                                       !.dt = [wall |-> w, tzinfo |-> us_tz(t, None).value]]]
    /\ UNCHANGED <<globals, tzs>>

Finish(p, ret) == calls' = [calls EXCEPT ![p].pc = "done", ![p].ret = ret]

InvalidDatePage == [page |-> "Invalid date specification"]

\* main.py:166: dt = datetime.datetime.now(tz=...), the clock read as `clock`
IndexNow(p, now) ==
    IF now.raised # "" THEN Finish(p, Raise(now.raised))
    ELSE calls' = [calls EXCEPT ![p].pc = "sun_times", ![p].dt = now.value]

\* main.py:165-186, with tz = us_tz(tz, dst_override=dst_override)
IndexDtIn(p, c, tz, clocks) ==
    IF c.at = None
    THEN \E clock \in clocks :
            IF tz.raised # "" THEN Finish(p, tz) ELSE IndexNow(p, fromutc(tz.value, clock))
    ELSE IF strptime(c.at).raised = "ValueError" THEN Finish(p, Ok(InvalidDatePage))
    ELSE IF tz.raised # "" THEN Finish(p, tz)
    ELSE \* dt.tzinfo = ...: the attribute is read-only
         Finish(p, Raise("AttributeError"))

\* main.py:164: dst_override = None if dst is None else bool(dst)
dst_override_of(d) == IF d = None THEN None ELSE Bool(d.v # 0)

\* main.py:164-186: index builds dt, from the clock or from `at`
IndexDt(p, clocks) ==
    /\ calls[p].pc = "index"
    /\ IndexDtIn(p, calls[p], us_tz(calls[p].tz, dst_override_of(calls[p].dst)), clocks)
    /\ UNCHANGED <<globals, tzs>>

\* sun_times raises: nothing of its frame reaches the caller, and index has
\* no handler around the call
SunRaise(p, e) ==
    calls' = [calls EXCEPT ![p].pc = "done", ![p].out = <<>>, ![p].ret = Raise(e)]

\* main.py:121-146, with n in hand
SunNoonAt(p, c, n) ==
    calls' = [calls EXCEPT ![p].pc = "sunrise", ![p].n = n,
                ![p].delta = delta(M(n)), ![p].n_transit = n_transit(n, c.lon),
                ![p].out = ("noon" :> dt_transit(n_transit(n, c.lon), c.dt.tzinfo))]

\* main.py:120, with dt-TIME_EPOCH in hand
SunNoonIn(p, c, since_epoch) ==
    IF since_epoch.raised # "" THEN SunRaise(p, since_epoch.raised)
    ELSE SunNoonAt(p, c, since_epoch.value + LEAP_SECONDS)

\* SunNoon with the leap seconds folded into the module's TIME_EPOCH
SunNoon_shifting_epoch(p) ==
    /\ calls[p].pc = "sun_times"
    /\ SunNoonIn(p, calls[p], aware_minus(calls[p].dt, TIME_EPOCH))
    /\ TIME_EPOCH' = [TIME_EPOCH EXCEPT !.wall = @ - LEAP_SECONDS]
    /\ UNCHANGED <<LEAP_SECONDS, DST_OFFSET, ZERO_OFFSET, all_tz, central_time, tzs>>

\* main.py:119-146: n, the solar quantities, the transit, out = {'noon': ...}
SunNoon(p) ==
    /\ calls[p].pc = "sun_times"
    /\ SunNoonIn(p, calls[p], aware_minus(calls[p].dt, TIME_EPOCH))
    /\ UNCHANGED <<globals, tzs>>

plus(dt, td) == [dt EXCEPT !.wall = @ + td]

\* out[before] = dt_transit - half, out[after] = dt_transit + half
SunEvents(p, c, half, before, after, pc) ==
    IF half.raised # "" THEN SunRaise(p, half.raised)
    ELSE calls' = [calls EXCEPT ![p].pc = pc, ![p].out =
                     c.out @@ (before :> plus(c.out["noon"], -half.value))
                           @@ (after :> plus(c.out["noon"], half.value))]

\* main.py:148-150, half_daylight_0 = timedelta(hours=omega(sunset_deg))
SunRise(p) ==
    /\ calls[p].pc = "sunrise"
    /\ SunEvents(p, calls[p], omega(sunset_deg, calls[p].lat, calls[p].delta),
                 "sunrise", "sunset", "twilight")
    /\ UNCHANGED <<globals, tzs>>

\* main.py:153-155, half_daylight_1 = timedelta(hours=omega(civil_twilight_deg))
SunTwilight(p) ==
    /\ calls[p].pc = "twilight"
    /\ SunEvents(p, calls[p], omega(civil_twilight_deg, calls[p].lat, calls[p].delta),
                 "dawn", "dusk", "return")
    /\ UNCHANGED <<globals, tzs>>

\* main.py:157 (and 187: times = sun_times(...) in index)
SunReturn(p) ==
    /\ calls[p].pc = "return"
    /\ IF calls[p].fn = "index"
       THEN calls' = [calls EXCEPT ![p].pc = "render", ![p].times = calls[p].out,
                                   ![p].out = <<>>]
       ELSE calls' = [calls EXCEPT ![p].pc = "done", ![p].ret = Ok(calls[p].out),
                                   ![p].out = <<>>]
    /\ UNCHANGED <<globals, tzs>>

\* main.py:188
times_fmt(times) == [k \in DOMAIN times |-> strftime(times[k])]

\* main.py:188-204
IndexRender(p) ==
    /\ calls[p].pc = "render"
    /\ Finish(p, Ok([page |-> "Dawn/Dusk", dawn |-> times_fmt(calls[p].times)["dawn"],
                     dusk |-> times_fmt(calls[p].times)["dusk"]]))
    /\ UNCHANGED <<globals, tzs>>

----------------------------------------------------------------------------
(* Spec: one call at a time, over a wide range of arguments.               *)

Lats == {-33, 0, 33, 64, 70, 90, 100}
Lons == {-180, -150, -90, 0, 90, 180}
CallNames == {Str("central"), Str("hawaii"), Str("-5"), Str("30"), Str("inf"), Str("xyz")}
Dsts == {PyInt(0), PyInt(1)}
Ats == {Str("2021-03-14"), Str("2021-11-07"), Str("2021-02-30"), Str("2021-13-01"), Str("today")}
\* the UTC instants the clock is read at
Clocks ==
    {datetime(2021, md[1], md[2], h) :
        md \in {<<3, 14>>, <<6, 21>>, <<11, 3>>, <<12, 21>>}, h \in {1, 7, 13, 19}}
\* wall clock values of direct sun_times calls, on both sides of TIME_EPOCH
Walls ==
    {datetime(ymd[1], ymd[2], ymd[3], h) :
        ymd \in {<<1999, 12, 30>>, <<1999, 12, 31>>, <<2000, 1, 1>>, <<2021, 6, 1>>},
        h \in {0, 6, 12, 18}}

Init ==
    /\ InitGlobals
    /\ tzs = IdleTz
    /\ calls = [p \in Procs |-> IdleCall]

Next ==
    \E p \in {1} :
        \/ CallIndex(p, Lats, Lons, Routes(CallNames, Dsts, Ats))
        \/ CallSunTimes(p, Lats, Lons, Walls, {None, Str("central"), Str("-5")})
        \/ IndexDt(p, Clocks)
        \/ SunNoon(p)
        \/ SunRise(p)
        \/ SunTwilight(p)
        \/ SunReturn(p)
        \/ IndexRender(p)

Spec == Init /\ [][Next]_vars

----------------------------------------------------------------------------
(* SpecConc: NumCalls calls at once, their statements interleaved.         *)

ConcLats == {33, 70}
ConcLons == {-90}
ConcRoutes == Routes({Str("central")}, {PyInt(1)}, {Str("2021-03-14")})
ConcClocks == {datetime(2021, 12, 21, 19)}
ConcWalls == {datetime(2021, 6, 1, 6)}

NextConc ==
    \E p \in Procs :
        \/ CallIndex(p, ConcLats, ConcLons, ConcRoutes)
        \/ CallSunTimes(p, ConcLats, ConcLons, ConcWalls, {Str("central")})
        \/ IndexDt(p, ConcClocks)
        \/ SunNoon(p)
        \/ SunRise(p)
        \/ SunTwilight(p)
        \/ SunReturn(p)
        \/ IndexRender(p)

SpecConc == Init /\ [][NextConc]_vars

----------------------------------------------------------------------------
(* Properties of sun_times and index, checked under Spec and SpecConc.     *)
(* Two aware datetimes of one tzinfo compare, and subtract, by their wall  *)
(* clocks, as datetime does.                                               *)

EventKeys == {"noon", "sunrise", "sunset", "dawn", "dusk"}

InSunTimes(c) == c.pc \in {"sunrise", "twilight", "return"}

Abs(x) == IF x < 0 THEN -x ELSE x

\* the zone's standard offset is the whole hour nearest to the longitude's
\* mean solar time
OffsetMatchesLongitude(c) ==
    /\ c.lon \in -180..180
    /\ Abs(c.dt.tzinfo._utc_offset - c.lon * 240) <= 1800

\* C4: for a longitude in [-180,180] and a UTC offset matching its zone, at
\* every time of day of the input timestamp the 'noon' sun_times computes
\* falls on the local calendar date of the input timestamp.
C4_NoonOnInputDate ==
    \A p \in Procs :
        (InSunTimes(calls[p]) /\ OffsetMatchesLongitude(calls[p])) =>
            ordinal(calls[p].out["noon"].wall) = ordinal(calls[p].dt.wall)

\* sin of the sun's elevation at solar noon (hour angle zero), in 1/Unit^2
SinNoonElevation(c) ==
    sind(c.lat * 1000) * sind(c.delta) + cosd(c.lat * 1000) * cosd(c.delta)

\* C5: whenever sun_times returns and the sun is above the horizon at solar
\* noon, dawn <= sunrise < noon < sunset <= dusk, sunrise and sunset are
\* equidistant from noon and so are dawn and dusk.
C5_EventOrder ==
    \A p \in Procs :
        (calls[p].pc = "return" /\ SinNoonElevation(calls[p]) > 0) =>
            LET o == calls[p].out
            IN  /\ o["dawn"].wall <= o["sunrise"].wall
                /\ o["sunrise"].wall < o["noon"].wall
                /\ o["noon"].wall < o["sunset"].wall
                /\ o["sunset"].wall <= o["dusk"].wall
                /\ o["noon"].wall - o["sunrise"].wall = o["sunset"].wall - o["noon"].wall
                /\ o["noon"].wall - o["dawn"].wall = o["dusk"].wall - o["noon"].wall

C5_Witness ==
    \E p \in Procs :
        /\ calls[p].pc = "return" /\ SinNoonElevation(calls[p]) > 0
        /\ calls[p].lat = 33
        /\ calls[p].out["dawn"].wall < calls[p].out["sunrise"].wall

InDomain(x) == -Unit <= x /\ x <= Unit

\* both arguments acosd is given lie in [-1, 1]
BothInDomain(c) ==
    /\ InDomain(omega_arg(-830, c.lat, c.delta))
    /\ InDomain(omega_arg(-6000, c.lat, c.delta))

\* a sun_times call of its own that is over
SunTimesDone(c) == c.fn = "sun_times" /\ c.pc = "done"

\* an index call that is over and had called sun_times
IndexDoneAfterSunTimes(c) == c.fn = "index" /\ c.pc = "done" /\ c.dt # None

C6_AllOrNothingState ==
    \A p \in Procs :
        /\ SunTimesDone(calls[p]) =>
              IF BothInDomain(calls[p])
              THEN /\ calls[p].ret.raised = ""
                   /\ DOMAIN calls[p].ret.value = EventKeys
              ELSE calls[p].ret = Raise("ValueError")
        /\ calls[p].pc = "render" =>
              BothInDomain(calls[p]) /\ DOMAIN calls[p].times = EventKeys
        /\ IndexDoneAfterSunTimes(calls[p]) =>
              IF BothInDomain(calls[p])
              THEN calls[p].ret.raised = "" /\ DOMAIN calls[p].times = EventKeys
              ELSE calls[p].ret = Raise("ValueError") /\ calls[p].times = None

\* C6: if either argument of arccos lies outside [-1,1] sun_times raises the
\* domain error and hands its caller no mapping; otherwise it returns a
\* mapping with exactly the keys noon, sunrise, sunset, dawn, dusk; no step
\* of it changes module-level state.
C6_AllOrNothing == []C6_AllOrNothingState /\ [][UNCHANGED globals]_vars

\* the -0.83 degree events were computed and the -6 degree ones failed
C6_Witness ==
    \E p \in Procs :
        /\ SunTimesDone(calls[p]) /\ calls[p].ret = Raise("ValueError")
        /\ InDomain(omega_arg(-830, calls[p].lat, calls[p].delta))
        /\ ~InDomain(omega_arg(-6000, calls[p].lat, calls[p].delta))

\* C7: for a request carrying `at` (and a timezone us_tz builds), an
\* unparseable string yields the 'Invalid date specification' page and a
\* parseable one reaches sun_times, after which the dawn/dusk page is
\* returned (or sun_times' domain error is let out).
C7_ValidDateReachesCore ==
    \A p \in Procs :
        (calls[p].fn = "index" /\ calls[p].pc = "done" /\ calls[p].at # None
            /\ calls[p].tz # Str("inf")) =>
            IF calls[p].at \in {Str("2021-03-14"), Str("2021-11-07")}
            THEN \/ /\ calls[p].ret.raised = ""
                    /\ calls[p].ret.value.page = "Dawn/Dusk"
                 \/ calls[p].ret = Raise("ValueError")
            ELSE calls[p].ret = Ok(InvalidDatePage)

\* the arguments and the clock reading that decide a call
Inputs(c) == <<c.fn, c.lat, c.lon, c.tz, c.dst, c.at, c.dt>>

C8_SameInputsSameResult ==
    \A p, q \in Procs :
        (calls[p].pc = "done" /\ calls[q].pc = "done"
            /\ Inputs(calls[p]) = Inputs(calls[q])) => calls[p].ret = calls[q].ret

\* what a sun_times call returns when nothing else runs, from its arguments
\* and the module constants as loaded
AloneSunTimes(c) ==
    LET n == c.dt.wall - (c.dt.tzinfo._utc_offset
                            + (IF _is_dst(c.dt.tzinfo, c.dt.wall) THEN 3600 ELSE 0))
                  - 43200 + 5
        dl == delta(M(n))
        noon == dt_transit(n_transit(n, c.lon), c.dt.tzinfo)
        h0 == omega(-830, c.lat, dl)
        h1 == omega(-6000, c.lat, dl)
    IN  IF h0.raised # "" \/ h1.raised # "" THEN Raise("ValueError")
        ELSE Ok([k \in EventKeys |->
                    CASE k = "noon" -> noon
                      [] k = "sunrise" -> plus(noon, -h0.value)
                      [] k = "sunset" -> plus(noon, h0.value)
                      [] k = "dawn" -> plus(noon, -h1.value)
                      [] OTHER -> plus(noon, h1.value)])

C8_ResultAsAlone ==
    \A p \in Procs :
        (calls[p].pc = "done" /\ calls[p].dt # None) =>
            LET alone == AloneSunTimes(calls[p])
            IN  IF calls[p].fn = "sun_times" \/ alone.raised # ""
                THEN calls[p].ret = alone
                ELSE calls[p].ret = Ok([page |-> "Dawn/Dusk",
                                        dawn |-> strftime(alone.value["dawn"]),
                                        dusk |-> strftime(alone.value["dusk"])])

\* C8: in any interleaving of concurrent calls no step writes module-level
\* state, each call's result is the result of the same call run alone, and
\* two calls with identical inputs return identical results.
C8_Independent ==
    /\ [][UNCHANGED globals]_vars
    /\ [](C8_SameInputsSameResult /\ C8_ResultAsAlone)

\* two calls ran interleaved on the same inputs and both returned a mapping
C8_Witness ==
    /\ calls[1].pc = "done" /\ calls[2].pc = "done"
    /\ calls[1].fn = "sun_times" /\ Inputs(calls[1]) = Inputs(calls[2])
    /\ calls[1].ret.raised = "" /\ calls[2].ret.raised = ""

Floor(n) == n \div 86400
Trunc(n) == IF n >= 0 THEN n \div 86400 ELSE -((-n) \div 86400)

\* the transit is the day count taken back through the epoch and leap
\* second shift, in the timezone of dt
TransitShiftedBack(c) ==
    /\ c.out["noon"].tzinfo = c.dt.tzinfo
    /\ c.out["noon"] = fromutc(c.dt.tzinfo, 43200 - 5 + c.n_transit).value

\* C9: for every input timestamp, those before the epoch too,
\* n_transit = floor(n) - longitude_deg/360 - eq_of_time_day, and the transit
\* is n_transit shifted back by the epoch and the leap seconds, in the
\* timezone of the input.
C9_FloorDayCount ==
    \A p \in Procs :
        InSunTimes(calls[p]) =>
            /\ calls[p].n_transit = Floor(calls[p].n) * 86400 - calls[p].lon * 240
                                        - eq_of_time_day(M(calls[p].n))
            /\ TransitShiftedBack(calls[p])

\* what sun_times computes instead: the whole-day count is n rounded toward
\* zero, which is floor(n) from the epoch on and floor(n) + 1 before it
TruncDayCount ==
    \A p \in Procs :
        InSunTimes(calls[p]) =>
            /\ calls[p].n_transit = Trunc(calls[p].n) * 86400 - calls[p].lon * 240
                                        - eq_of_time_day(M(calls[p].n))
            /\ calls[p].n < 0 /\ calls[p].n % 86400 # 0 =>
                   Trunc(calls[p].n) = Floor(calls[p].n) + 1
            /\ TransitShiftedBack(calls[p])

\* a call before the epoch, its day count one above floor(n)
BeforeEpochCounted ==
    \E p \in Procs :
        /\ calls[p].pc = "sunrise" /\ calls[p].n < 0 /\ calls[p].n % 86400 # 0
        /\ calls[p].n_transit = (Floor(calls[p].n) + 1) * 86400 - calls[p].lon * 240
                                    - eq_of_time_day(M(calls[p].n))

=============================================================================
